---------------------------- MODULE Spec2Model ----------------------------
(***************************************************************************)
(* Model of rconan/simulink-binder.                                        *)
(*                                                                         *)
(*   src/binder/src/lib.rs  the lenient generator ("Mode A"): it reads the *)
(*                          header file, finds the model name, parses the  *)
(*                          three sections and emits zero initialisers.    *)
(*   src/src/lib.rs         the strict generator ("Mode B"): it parses the *)
(*                          inputs and outputs sections and emits the      *)
(*                          enums U and Y, the Controller, its Drop and    *)
(*                          its Iterator implementations.                  *)
(*                                                                         *)
(* Header lines are strings; the regular expressions, `contains`,          *)
(* `starts_with`, `replace`, `to_lowercase` and `parse::<usize>` are       *)
(* computed character by character.  The header reaches the generator one  *)
(* line per call of `lines.next()`: `seen` is what has been read, `eof`    *)
(* says that the iterator has returned None.                               *)
(***************************************************************************)
EXTENDS Integers, Sequences, FiniteSets, TLC

VARIABLES
    seen,           \* the lines `lines.next()` has returned so far, in order
    eof,            \* `lines.next()` has returned None (it does so ever after)
    polls,          \* calls of `lines.next()` that returned None (saturating)
    pc,             \* position of the generator / of the caller
    line,           \* `line` of the outer loop of import
    stage,          \* which `if line.contains(marker)` of the outer loop is next
    io_data,        \* `io_data` of parse_io
    model,          \* Mode A: the model name (an Option)
    model_inputs,   \* import's model_inputs
    model_outputs,  \* import's model_outputs
    model_states,   \* Mode A: import's model_states
    code,           \* what the pass emitted (an Option)
    opened,         \* per tag: Len(seen) when the last `typedef struct` line of
                    \* that section was accepted (0: never)
    secEof,         \* the tag whose sub-scan was ended by the end of input ("" : none)
    decl,           \* the controller's emitted field sizes (Mode B, run time)
    ctl,            \* the Controller: "none", "live" or "dropped"
    native,         \* the native routines invoked so far, in order
    yielded,        \* what the iterator advances returned, in order
    direct,         \* calls of the public Simulink trait methods by the caller
    indexed         \* the outcome of the last enum indexing

genVars == <<seen, eof, polls, pc, line, stage, io_data, model, model_inputs,
             model_outputs, model_states, code, opened, secEof>>
ctlVars == <<decl, ctl, native, yielded, direct, indexed>>
vars == <<seen, eof, polls, pc, line, stage, io_data, model, model_inputs,
          model_outputs, model_states, code, opened, secEof,
          decl, ctl, native, yielded, direct, indexed>>

----------------------------------------------------------------------------
(* Bounds *)

\* Mode A: the header has at most this many lines.
MaxLines == 6
\* Mode B: the header has at most this many lines.
MaxLinesB == 6
\* `polls` saturates here.
PollCap == 5
\* Run time: at most this many operations on one controller.
MaxOps == 4
\* Run time: indices 0..MaxIndex are tried on an enum view.
MaxIndex == 3
\* Run time: the controller has at most this many input fields.
MaxFields == 2

----------------------------------------------------------------------------
(* Text *)

None == <<>>
Some(v) == <<v>>

\* The i-th character of s ("" beyond its end).
Ch(s, i) == IF i \in 1..Len(s) THEN SubSeq(s, i, i) ELSE ""

Lower == {"a","b","c","d","e","f","g","h","i","j","k","l","m",
          "n","o","p","q","r","s","t","u","v","w","x","y","z"}
Upper == {"A","B","C","D","E","F","G","H","I","J","K","L","M",
          "N","O","P","Q","R","S","T","U","V","W","X","Y","Z"}
Digit == {"0","1","2","3","4","5","6","7","8","9"}
Space == {" "}

UpperSeq == "ABCDEFGHIJKLMNOPQRSTUVWXYZ"
LowerSeq == "abcdefghijklmnopqrstuvwxyz"
DigitSeq == "0123456789"

\* \w and \d of the regex crate, on ASCII text.
IsWord(c) == c \in Lower \cup Upper \cup Digit \cup {"_"}
IsDigit(c) == c \in Digit

\* str::contains
Contains(s, sub) ==
    \E i \in 1..(Len(s) - Len(sub) + 1) : SubSeq(s, i, i + Len(sub) - 1) = sub

\* str::starts_with
StartsWith(s, p) == Len(s) >= Len(p) /\ SubSeq(s, 1, Len(p)) = p

\* The index after the longest run of word characters that starts at i.
RECURSIVE WordEnd(_, _)
WordEnd(s, i) == IF i <= Len(s) /\ IsWord(Ch(s, i)) THEN WordEnd(s, i + 1) ELSE i

RECURSIVE DigitEnd(_, _)
DigitEnd(s, i) == IF i <= Len(s) /\ IsDigit(Ch(s, i)) THEN DigitEnd(s, i + 1) ELSE i

RECURSIVE SpaceEnd(_, _)
SpaceEnd(s, i) == IF i <= Len(s) /\ Ch(s, i) \in Space THEN SpaceEnd(s, i + 1) ELSE i

\* The least element of a non-empty set of integers.
Least(S) == CHOOSE i \in S : \A j \in S : i <= j

\* str::replace("_", "")
RECURSIVE StripUnderscores(_)
StripUnderscores(s) ==
    IF s = "" THEN ""
    ELSE (IF Ch(s, 1) = "_" THEN "" ELSE Ch(s, 1))
             \o StripUnderscores(SubSeq(s, 2, Len(s)))

ToLowerChar(c) ==
    IF c \in Upper
    THEN Ch(LowerSeq, CHOOSE i \in 1..26 : Ch(UpperSeq, i) = c)
    ELSE c

\* str::to_lowercase
RECURSIVE to_lowercase(_)
to_lowercase(s) ==
    IF s = "" THEN "" ELSE ToLowerChar(Ch(s, 1)) \o to_lowercase(SubSeq(s, 2, Len(s)))

DigitVal(c) == (CHOOSE i \in 1..10 : Ch(DigitSeq, i) = c) - 1

RECURSIVE StripZeros(_)
StripZeros(s) ==
    IF Len(s) > 1 /\ Ch(s, 1) = "0" THEN StripZeros(SubSeq(s, 2, Len(s))) ELSE s

RECURSIVE DigitsValue(_)
DigitsValue(s) ==
    IF s = "" THEN 0
    ELSE 10 * DigitsValue(SubSeq(s, 1, Len(s) - 1)) + DigitVal(Ch(s, Len(s)))

\* a > b for two digit strings of the same length
DigitsGreater(a, b) ==
    \E i \in 1..Len(a) :
        /\ SubSeq(a, 1, i - 1) = SubSeq(b, 1, i - 1)
        /\ DigitVal(Ch(a, i)) > DigitVal(Ch(b, i))

\* usize::MAX on a 64-bit build host, in decimal.
UsizeMax == "18446744073709551615"

\* str::parse::<usize>() on a string of digits: Some(n), or None on overflow.
\* (The headers of the model hold sizes of at most nine digits or beyond
\* usize::MAX, so that the value fits TLC's integers.)
ParseUsize(ds) ==
    LET t == StripZeros(ds) IN
    IF Len(t) > Len(UsizeMax) \/ (Len(t) = Len(UsizeMax) /\ DigitsGreater(t, UsizeMax))
    THEN None
    ELSE Some(DigitsValue(t))

\* Ident::new accepts a non-empty name that does not start with a digit
\* (the names here are runs of word characters); it panics otherwise.
IdentOk(name) == name # "" /\ ~IsDigit(Ch(name, 1))

----------------------------------------------------------------------------
(* The header's lines *)

L_file == " * File: m.h"
L_fileBad == " * File: see docs"
L_in == "/* External inputs */"
L_out == "/* External outputs */"
L_dw == "/* Block states */"
L_typedef == "typedef struct {"
L_a == "  real_T a[2];"
L_b == "  real_T b;"
L_g == "  real_T ExtU_g;"
L_h == "  real_T h[18446744073709551616];"
L_2 == "  real_T 2x;"
L_pad == "  /* pad */"
End(tag) == "} " \o tag \o "_m_T;"

Marker(tag) ==
    CASE tag = "ExtU" -> "External inputs"
      [] tag = "ExtY" -> "External outputs"
      [] tag = "DW" -> "Block states"

\* The (marker, tag) pairs of import's outer loop, in the order of its ifs.
TagsA == <<"ExtU", "ExtY", "DW">>
TagsB == <<"ExtU", "ExtY">>

\* What `lines.next()` may return: None once the input has ended (and ever
\* after), else None or one of the lines `offer`.
Avail(offer, max) ==
    IF eof \/ Len(seen) >= max THEN {None} ELSE {None} \cup {Some(l) : l \in offer}

Consume(r) ==
    /\ seen' = IF r = None THEN seen ELSE Append(seen, r[1])
    /\ eof' = (eof \/ r = None)
    /\ polls' = IF r = None /\ polls < PollCap THEN polls + 1 ELSE polls

\* The first `if line.contains(marker)` at or after the k-th that holds for l
\* (0: none, the outer loop reads its next line).
RECURSIVE NextStage(_, _, _)
NextStage(l, k, tags) ==
    IF k > Len(tags) THEN 0
    ELSE IF Contains(l, Marker(tags[k])) THEN k
    ELSE NextStage(l, k + 1, tags)

----------------------------------------------------------------------------
(* Mode A: src/binder/src/lib.rs *)

\* Regex `_T (?P<name>\w+)(?:\[(?P<size>\d+)\])?`, leftmost match:
\* None, or Some of the captures (size: an Option of the digits).
binder_captures(s) ==
    LET starts == {i \in 1..(Len(s) - 3) :
                      SubSeq(s, i, i + 2) = "_T " /\ WordEnd(s, i + 3) > i + 3}
    IN  IF starts = {} THEN None
        ELSE LET i == Least(starts)
                 e == WordEnd(s, i + 3)
                 d == DigitEnd(s, e + 1)
             IN  Some([name |-> SubSeq(s, i + 3, e - 1),
                       size |-> IF Ch(s, e) = "[" /\ d > e + 1 /\ Ch(s, d) = "]"
                                THEN Some(SubSeq(s, e + 1, d - 1))
                                ELSE None])

\* Regex `File:\s*(\w+)\.h`, leftmost match: None or Some(name).
file_captures(s) ==
    LET ok(i) == LET w == SpaceEnd(s, i + 5)
                     e == WordEnd(s, w)
                 IN  /\ SubSeq(s, i, i + 4) = "File:"
                     /\ e > w
                     /\ Ch(s, e) = "." /\ Ch(s, e + 1) = "h"
        starts == {i \in 1..(Len(s) - 4) : ok(i)}
    IN  IF starts = {} THEN None
        ELSE LET w == SpaceEnd(s, Least(starts) + 5)
             IN  Some(SubSeq(s, w, WordEnd(s, w) - 1))

\* IO::new: size.and_then(|s| s.parse().ok())
binder_IO_new(name, size) ==
    [name |-> name, size |-> IF size = None THEN None ELSE ParseUsize(size[1])]

\* List::quote: one initialiser per field, in order: `var: 0f64,` (zeros None)
\* or `var: [0f64; n],` (zeros Some(n)).  io.var() is Ident::new(&name).
binder_quote_entry(io) == [var |-> io.name, zeros |-> io.size]

binder_quote(list) == [i \in 1..Len(list) |-> binder_quote_entry(list[i])]

binder_quote_panics(list) == \E i \in 1..Len(list) : ~IdentOk(list[i].name)

OfferName == {L_file, L_fileBad, L_in}
OfferScan == {L_in, L_out, L_dw, L_typedef, L_b, End("ExtU"), End("ExtY")}
OfferOpen == {L_typedef, L_pad, L_out}
OfferBody(tag) == {L_a, L_b, L_g, L_h, L_2, L_pad, End(tag)}

\* After the k-th `if` of the outer loop: the next one that applies calls
\* parse_io, or the loop reads on.
binder_after(k) ==
    LET n == NextStage(line, k + 1, TagsA)
    IN  /\ stage' = n
        /\ pc' = IF n = 0 THEN "scan" ELSE "open"

\* A faulty binder_assign: the list parse_io returns is dropped.
binder_assign_lost(tag, io) ==
    UNCHANGED <<model_inputs, model_outputs, model_states>>

\* model_inputs = io; model_outputs = io; model_states = io
binder_assign(tag, io) ==
    /\ model_inputs' = IF tag = "ExtU" THEN io ELSE model_inputs
    /\ model_outputs' = IF tag = "ExtY" THEN io ELSE model_outputs
    /\ model_states' = IF tag = "DW" THEN io ELSE model_states

\* import, one iteration of `let model = loop { .. }`
binder_import_name ==
    /\ pc = "name"
    /\ \E r \in Avail(OfferName, MaxLines) :
        /\ Consume(r)
        /\ IF r # None /\ Contains(r[1], "File:") /\ file_captures(r[1]) # None
           THEN /\ model' = file_captures(r[1])
                /\ pc' = IF IdentOk(file_captures(r[1])[1]) THEN "scan" ELSE "panic"
           ELSE UNCHANGED <<model, pc>>
    /\ UNCHANGED <<line, stage, io_data, model_inputs, model_outputs,
                   model_states, code, opened, secEof>>
    /\ UNCHANGED ctlVars

\* import, `while let Some(Ok(line)) = lines.next()`
binder_import_scan ==
    /\ pc = "scan"
    /\ \E r \in Avail(OfferScan, MaxLines) :
        /\ Consume(r)
        /\ IF r = None
           THEN /\ pc' = "emit"
                /\ UNCHANGED <<line, stage>>
           ELSE /\ line' = r[1]
                /\ stage' = NextStage(r[1], 1, TagsA)
                /\ pc' = IF NextStage(r[1], 1, TagsA) = 0 THEN "scan" ELSE "open"
    /\ UNCHANGED <<io_data, model, model_inputs, model_outputs, model_states,
                   code, opened, secEof>>
    /\ UNCHANGED ctlVars

\* parse_io, `match lines.next()`
binder_parse_io_open ==
    /\ pc = "open"
    /\ \E r \in Avail(OfferOpen, MaxLines) :
        /\ Consume(r)
        /\ IF r # None /\ StartsWith(r[1], "typedef struct")
           THEN /\ io_data' = <<>>
                /\ opened' = [opened EXCEPT ![TagsA[stage]] = Len(seen')]
                /\ pc' = "body"
                /\ UNCHANGED stage
           ELSE /\ binder_after(stage)
                /\ UNCHANGED <<io_data, opened>>
    /\ UNCHANGED <<line, model, model_inputs, model_outputs, model_states,
                   code, secEof>>
    /\ UNCHANGED ctlVars

\* parse_io, one iteration of `while let Some(Ok(line)) = lines.next()`
binder_parse_io_body ==
    /\ pc = "body"
    /\ \E r \in Avail(OfferBody(TagsA[stage]), MaxLines) :
        /\ Consume(r)
        /\ IF r = None \/ (r # None /\ Contains(r[1], TagsA[stage]))
           THEN \* the loop ends; Some(List(io_data)) goes to import
                /\ binder_assign(TagsA[stage], io_data)
                /\ binder_after(stage)
                /\ secEof' = IF r = None THEN TagsA[stage] ELSE secEof
                /\ UNCHANGED io_data
           ELSE /\ io_data' =
                     IF binder_captures(r[1]) = None THEN io_data
                     ELSE Append(io_data,
                                 binder_IO_new(binder_captures(r[1])[1].name,
                                               binder_captures(r[1])[1].size))
                /\ UNCHANGED <<pc, stage, secEof, model_inputs, model_outputs,
                               model_states>>
    /\ UNCHANGED <<line, model, code, opened>>
    /\ UNCHANGED ctlVars

\* import, from `let var_u = model_inputs.quote()` to the end
binder_import_emit ==
    /\ pc = "emit"
    /\ IF \/ binder_quote_panics(model_inputs)
          \/ binder_quote_panics(model_outputs)
          \/ binder_quote_panics(model_states)
       THEN /\ pc' = "panic"
            /\ UNCHANGED code
       ELSE /\ pc' = "done"
            /\ code' = Some([model |-> model[1],
                             var_u |-> binder_quote(model_inputs),
                             var_y |-> binder_quote(model_outputs),
                             var_s |-> binder_quote(model_states)])
    /\ UNCHANGED <<seen, eof, polls, line, stage, io_data, model, model_inputs,
                   model_outputs, model_states, opened, secEof>>
    /\ UNCHANGED ctlVars

NoCtl ==
    /\ decl = <<>>
    /\ ctl = "none"
    /\ native = <<>>
    /\ yielded = <<>>
    /\ direct = [m \in {"initialize", "__step__", "terminate"} |-> 0]
    /\ indexed = None

NoGen(p) ==
    /\ seen = <<>>
    /\ eof = FALSE
    /\ polls = 0
    /\ pc = p
    /\ line = ""
    /\ stage = 0
    /\ io_data = <<>>
    /\ model = None
    /\ model_inputs = <<>>
    /\ model_outputs = <<>>
    /\ model_states = <<>>
    /\ code = None
    /\ opened = [t \in {"ExtU", "ExtY", "DW"} |-> 0]
    /\ secEof = ""

InitA == NoGen("name") /\ NoCtl

NextA ==
    \/ binder_import_name
    \/ binder_import_scan
    \/ binder_parse_io_open
    \/ binder_parse_io_body
    \/ binder_import_emit

SpecA == InitA /\ [][NextA]_vars

----------------------------------------------------------------------------
(* Mode B, the generator: src/src/lib.rs *)

L_au == "  real_T a_[1];"
L_A == "  real_T A[1];"
L_u == "  real_T _[1];"

\* Regex `_T (?P<name>\w+)\[(?P<size>\d+)\]`, leftmost match: None, or Some of
\* the captures (size: the digits).
captures(s) ==
    LET ok(i) == LET e == WordEnd(s, i + 3)
                     d == DigitEnd(s, e + 1)
                 IN  /\ SubSeq(s, i, i + 2) = "_T "
                     /\ e > i + 3
                     /\ Ch(s, e) = "[" /\ d > e + 1 /\ Ch(s, d) = "]"
        starts == {i \in 1..(Len(s) - 3) : ok(i)}
    IN  IF starts = {} THEN None
        ELSE LET i == Least(starts)
                 e == WordEnd(s, i + 3)
             IN  Some([name |-> SubSeq(s, i + 3, e - 1),
                       size |-> SubSeq(s, e + 1, DigitEnd(s, e + 1) - 1)])

\* IO::new: Ident::new(name) and size.parse().unwrap() may panic (None).
IO_new(name, size) ==
    IF IdentOk(name) /\ ParseUsize(size) # None
    THEN Some([name |-> name, size |-> ParseUsize(size)[1]])
    ELSE None

\* IO::variant: the name without its underscores (Ident::new may panic)
IO_variant(io) == StripUnderscores(io.name)

\* IO::var: the name in lower case
IO_var(io) == to_lowercase(io.name)

\* parse_io on one body line that does not hold the tag: None is a panic
\* (`re.captures(&line).unwrap()`, or one of IO::new), Some(io) is pushed.
parse_line(l) ==
    IF captures(l) = None THEN None
    ELSE IO_new(captures(l)[1].name, captures(l)[1].size)

\* import, from `let sim_u` to the end: the vectors spliced into the output.
emit_vectors(list) ==
    [sim    |-> [i \in 1..Len(list) |-> list[i].name],
     size   |-> [i \in 1..Len(list) |-> list[i].size],
     enum   |-> [i \in 1..Len(list) |-> IO_variant(list[i])],
     var    |-> [i \in 1..Len(list) |-> IO_var(list[i])]]

emit_panics(list) ==
    \E i \in 1..Len(list) : ~IdentOk(IO_variant(list[i])) \/ ~IdentOk(IO_var(list[i]))

OfferScanB == {L_in, L_out, L_pad}
OfferOpenB == {L_typedef, L_pad}
OfferBodyB(tag) == {L_a, L_au, L_A, L_b, L_u, L_pad, End(tag)}

after(k) ==
    LET n == NextStage(line, k + 1, TagsB)
    IN  /\ stage' = n
        /\ pc' = IF n = 0 THEN "b_scan" ELSE "b_open"

\* model_inputs.append(io); model_outputs.append(io)
append(tag, io) ==
    /\ model_inputs' = IF tag = "ExtU" THEN model_inputs \o io ELSE model_inputs
    /\ model_outputs' = IF tag = "ExtY" THEN model_outputs \o io ELSE model_outputs

\* import, `while let Some(Ok(line)) = lines.next()`
import_scan ==
    /\ pc = "b_scan"
    /\ \E r \in Avail(OfferScanB, MaxLinesB) :
        /\ Consume(r)
        /\ IF r = None
           THEN /\ pc' = "b_emit"
                /\ UNCHANGED <<line, stage>>
           ELSE /\ line' = r[1]
                /\ stage' = NextStage(r[1], 1, TagsB)
                /\ pc' = IF NextStage(r[1], 1, TagsB) = 0 THEN "b_scan" ELSE "b_open"
    /\ UNCHANGED <<io_data, model, model_inputs, model_outputs, model_states,
                   code, opened, secEof>>
    /\ UNCHANGED ctlVars

\* parse_io, `match lines.next()`
parse_io_open ==
    /\ pc = "b_open"
    /\ \E r \in Avail(OfferOpenB, MaxLinesB) :
        /\ Consume(r)
        /\ IF r # None /\ StartsWith(r[1], "typedef struct")
           THEN /\ io_data' = <<>>
                /\ opened' = [opened EXCEPT ![TagsB[stage]] = Len(seen')]
                /\ pc' = "b_body"
                /\ UNCHANGED stage
           ELSE /\ after(stage)
                /\ UNCHANGED <<io_data, opened>>
    /\ UNCHANGED <<line, model, model_inputs, model_outputs, model_states,
                   code, secEof>>
    /\ UNCHANGED ctlVars

\* parse_io, one iteration of `while let Some(Ok(line)) = lines.next()`
parse_io_body ==
    /\ pc = "b_body"
    /\ \E r \in Avail(OfferBodyB(TagsB[stage]), MaxLinesB) :
        /\ Consume(r)
        /\ IF r = None \/ (r # None /\ Contains(r[1], TagsB[stage]))
           THEN /\ append(TagsB[stage], io_data)
                /\ after(stage)
                /\ secEof' = IF r = None THEN TagsB[stage] ELSE secEof
                /\ UNCHANGED io_data
           ELSE /\ IF parse_line(r[1]) = None
                   THEN /\ pc' = "b_panic"
                        /\ UNCHANGED io_data
                   ELSE /\ io_data' = Append(io_data, parse_line(r[1])[1])
                        /\ UNCHANGED pc
                /\ UNCHANGED <<stage, secEof, model_inputs, model_outputs>>
    /\ UNCHANGED <<line, model, model_states, code, opened>>
    /\ UNCHANGED ctlVars

\* import, from `let sim_u` to `code.into()`
import_emit ==
    /\ pc = "b_emit"
    /\ IF emit_panics(model_inputs) \/ emit_panics(model_outputs)
       THEN /\ pc' = "b_panic"
            /\ UNCHANGED code
       ELSE /\ pc' = "b_done"
            /\ code' = Some([u |-> emit_vectors(model_inputs),
                             y |-> emit_vectors(model_outputs)])
    /\ UNCHANGED <<seen, eof, polls, line, stage, io_data, model, model_inputs,
                   model_outputs, model_states, opened, secEof>>
    /\ UNCHANGED ctlVars

InitB == NoGen("b_scan") /\ NoCtl

NextB ==
    \/ import_scan
    \/ parse_io_open
    \/ parse_io_body
    \/ import_emit

SpecB == InitB /\ [][NextB]_vars

----------------------------------------------------------------------------
(* Mode B, the emitted code at run time: src/src/lib.rs, lines 119 to 247 *)

\* The field lists a generated controller may come from: up to MaxFields
\* array fields.
FieldNames == {"a", "b"}
FieldSizes == {"1", "2"}
Fields == {IO_new(n, z)[1] : n \in FieldNames, z \in FieldSizes}
FieldLists == UNION {[1..k -> Fields] : k \in 0..MaxFields}

\* <model>_initialize, <model>_step, <model>_terminate as the trait calls them
Simulink_initialize_calls == <<"initialize">>
Simulink_step_calls == <<"step">>
Simulink_terminate_calls == <<"terminate">>

\* A faulty Drop::drop: it does not call terminate.
Controller_drop_silent == <<>>

\* Drop::drop: self.terminate()
Controller_drop_calls == Simulink_terminate_calls

\* A faulty Iterator::next: it does not call __step__.
Iterator_next_idle == <<>>

\* Iterator::next, for Controller and for &Controller: self.__step__(); Some(())
Iterator_next_calls == Simulink_step_calls
Iterator_next_item == Some("()")

\* Index::index / IndexMut::index_mut on U: `&data[index]`, data: [f64; size].
\* TRUE: the element; FALSE: the index-out-of-range panic.
U_index(size, index) == index < size

\* Controller::new: binds the views, then this.initialize()
Controller_new ==
    /\ pc = "run" /\ ctl = "none"
    /\ ctl' = "live"
    /\ native' = native \o Simulink_initialize_calls
    /\ UNCHANGED <<decl, yielded, direct, indexed>>
    /\ UNCHANGED genVars

\* impl Iterator for Controller: next
Iterator_next ==
    /\ pc = "run" /\ ctl = "live" /\ Len(native) <= MaxOps /\ Len(yielded) < MaxOps
    /\ native' = native \o Iterator_next_calls
    /\ yielded' = Append(yielded, Iterator_next_item)
    /\ UNCHANGED <<decl, ctl, direct, indexed>>
    /\ UNCHANGED genVars

\* impl Iterator for &Controller: next
Iterator_next_ref ==
    /\ pc = "run" /\ ctl = "live" /\ Len(native) <= MaxOps /\ Len(yielded) < MaxOps
    /\ native' = native \o Iterator_next_calls
    /\ yielded' = Append(yielded, Iterator_next_item)
    /\ UNCHANGED <<decl, ctl, direct, indexed>>
    /\ UNCHANGED genVars

\* The caller calls Simulink::initialize on the controller.
Simulink_initialize ==
    /\ pc = "run" /\ ctl = "live" /\ Len(native) <= MaxOps
    /\ native' = native \o Simulink_initialize_calls
    /\ direct' = [direct EXCEPT !["initialize"] = @ + 1]
    /\ UNCHANGED <<decl, ctl, yielded, indexed>>
    /\ UNCHANGED genVars

\* The caller calls Simulink::__step__ on the controller.
Simulink_step ==
    /\ pc = "run" /\ ctl = "live" /\ Len(native) <= MaxOps
    /\ native' = native \o Simulink_step_calls
    /\ direct' = [direct EXCEPT !["__step__"] = @ + 1]
    /\ UNCHANGED <<decl, ctl, yielded, indexed>>
    /\ UNCHANGED genVars

\* The caller calls Simulink::terminate on the controller.
Simulink_terminate ==
    /\ pc = "run" /\ ctl = "live" /\ Len(native) <= MaxOps
    /\ native' = native \o Simulink_terminate_calls
    /\ direct' = [direct EXCEPT !["terminate"] = @ + 1]
    /\ UNCHANGED <<decl, ctl, yielded, indexed>>
    /\ UNCHANGED genVars

\* The caller indexes the k-th input view at i.  Out of range, the panic
\* unwinds the caller's frame and the controller in it is dropped.
U_index_call ==
    /\ pc = "run" /\ ctl = "live"
    /\ \E k \in 1..Len(decl), i \in 0..MaxIndex :
        IF U_index(decl[k], i)
        THEN /\ indexed' = Some([field |-> k, index |-> i, ok |-> TRUE])
             /\ UNCHANGED <<ctl, native>>
        ELSE /\ indexed' = Some([field |-> k, index |-> i, ok |-> FALSE])
             /\ ctl' = "dropped"
             /\ native' = native \o Controller_drop_calls
    /\ UNCHANGED <<decl, yielded, direct>>
    /\ UNCHANGED genVars

\* The controller goes out of scope: Drop::drop
Controller_drop ==
    /\ pc = "run" /\ ctl = "live"
    /\ ctl' = "dropped"
    /\ native' = native \o Controller_drop_calls
    /\ UNCHANGED <<decl, yielded, direct, indexed>>
    /\ UNCHANGED genVars

InitCtl ==
    /\ seen = <<>> /\ eof = FALSE /\ polls = 0 /\ pc = "run" /\ line = ""
    /\ stage = 0 /\ io_data = <<>> /\ model = None
    /\ model_inputs \in FieldLists
    /\ model_outputs = <<>> /\ model_states = <<>>
    /\ code = Some([u |-> emit_vectors(model_inputs), y |-> emit_vectors(<<>>)])
    /\ opened = [t \in {"ExtU", "ExtY", "DW"} |-> 0]
    /\ secEof = ""
    /\ decl = emit_vectors(model_inputs).size
    /\ ctl = "none"
    /\ native = <<>>
    /\ yielded = <<>>
    /\ direct = [m \in {"initialize", "__step__", "terminate"} |-> 0]
    /\ indexed = None

NextCtl ==
    \/ Controller_new
    \/ Iterator_next
    \/ Iterator_next_ref
    \/ Simulink_initialize
    \/ Simulink_step
    \/ Simulink_terminate
    \/ U_index_call
    \/ Controller_drop

SpecCtl == InitCtl /\ [][NextCtl]_vars

----------------------------------------------------------------------------
(* Both generators together *)

InitGen == InitA \/ InitB

NextGen == NextA \/ NextB

\* The pass is one synchronous call: it takes its next step whenever it has one.
SpecGen == InitGen /\ [][NextGen]_vars /\ WF_vars(NextGen)

----------------------------------------------------------------------------
(* Reading the header as the claims do *)

RECURSIVE Count(_, _)
Count(q, x) ==
    IF q = <<>> THEN 0 ELSE (IF Head(q) = x THEN 1 ELSE 0) + Count(Tail(q), x)

\* The captures of the lines the lenient field pattern matches, in order.
RECURSIVE DeclaredFields(_)
DeclaredFields(ls) ==
    IF ls = <<>> THEN <<>>
    ELSE (IF binder_captures(Head(ls)) = None THEN <<>>
          ELSE <<binder_captures(Head(ls))[1]>>) \o DeclaredFields(Tail(ls))

\* The declared length of a field: its bracketed integer, 1 for a scalar
\* (for sizes of at most nine digits).
ShortSize(d) == d.size = None \/ Len(StripZeros(d.size[1])) <= 9
DeclaredLen(d) == IF d.size = None THEN 1 ELSE DigitsValue(StripZeros(d.size[1]))

ListOf(tag) ==
    CASE tag = "ExtU" -> model_inputs
      [] tag = "ExtY" -> model_outputs
      [] tag = "DW" -> model_states

\* Line i lies behind the line that gives the model name.
AfterName(i) ==
    \E f \in 1..(i - 1) : Contains(seen[f], "File:") /\ file_captures(seen[f]) # None

IsMarkerLine(l) == NextStage(l, 1, TagsA) # 0

\* Lines i..j of the header are one section: marker, `typedef struct`, a body
\* and the closing line, the first line behind the body that holds the tag and
\* is no field line.
Section(tag, i, j) ==
    /\ i + 2 <= j /\ j <= Len(seen)
    /\ Contains(seen[i], Marker(tag))
    /\ StartsWith(seen[i + 1], "typedef struct")
    /\ Contains(seen[j], tag) /\ binder_captures(seen[j]) = None
    /\ \A k \in (i + 2)..(j - 1) :
          ~(Contains(seen[k], tag) /\ binder_captures(seen[k]) = None)

\* The i-th line is the only line of the header that holds a section marker.
OnlyMarker(i) == \A k \in 1..Len(seen) : IsMarkerLine(seen[k]) => k = i

\* The line behind the last accepted `typedef struct` of the section that ends
\* its body: the first that holds the tag, else the end of the input.
BodyEnd(tag) ==
    LET ends == {k \in (opened[tag] + 1)..Len(seen) : Contains(seen[k], tag)}
    IN  IF ends = {} THEN Len(seen) + 1 ELSE Least(ends)

BodyLines(tag) ==
    IF opened[tag] = 0 THEN <<>>
    ELSE SubSeq(seen, opened[tag] + 1, BodyEnd(tag) - 1)

\* An entry of a FieldList carries the name and the size of a field line.
Carries(io, d) ==
    /\ io.name = d.name
    /\ d.size = None => io.size = None
    /\ d.size # None => io.size # None /\ (ShortSize(d) => io.size[1] = DeclaredLen(d))

----------------------------------------------------------------------------
(* C1 *)

\* C1: Mode A. When the header holds one section (its marker behind the
\* model-name line and the only marker of the header, `typedef struct`, a
\* body, the closing line with the tag), the section's FieldList has one
\* entry per well-formed field line of the body, in order, each with the
\* line's name and size -- for every identifier the pattern accepts.
C1_RoundTrip ==
    pc = "emit" =>
        \A tag \in {"ExtU", "ExtY", "DW"} : \A i, j \in 1..Len(seen) :
            (Section(tag, i, j) /\ AfterName(i) /\ OnlyMarker(i)) =>
                LET d == DeclaredFields(SubSeq(seen, i + 2, j - 1))
                IN  /\ Len(ListOf(tag)) = Len(d)
                    /\ \A n \in 1..Len(d) : Carries(ListOf(tag)[n], d[n])

----------------------------------------------------------------------------
(* C6 *)

\* A line of a body that touches none of the generator's other corner cases.
PlainLine(l, tag) ==
    /\ ~Contains(l, tag)
    /\ binder_captures(l) # None =>
          /\ IdentOk(binder_captures(l)[1].name)
          /\ ShortSize(binder_captures(l)[1])

\* Line i is the first marker of the header and the line behind it does not
\* start the struct.
FailedMarker(tag, i) ==
    /\ i < Len(seen)
    /\ AfterName(i)
    /\ Contains(seen[i], Marker(tag))
    /\ \A k \in 1..(i - 1) : ~IsMarkerLine(seen[k])
    /\ ~StartsWith(seen[i + 1], "typedef struct")

\* C6: Mode A. A marker whose next line does not start with `typedef struct`
\* raises no error and adds no field to its list, and the sections behind it
\* are parsed as if the marker were not there: a complete section that
\* follows has its fields in its FieldList.
C6_FailedMarkerIsAbsent ==
    pc = "emit" =>
        \A t1 \in {"ExtU", "ExtY", "DW"} : \A i \in 1..Len(seen) :
            FailedMarker(t1, i) =>
                /\ (\A k \in 1..Len(seen) : Contains(seen[k], Marker(t1)) => k = i)
                       => ListOf(t1) = <<>>
                /\ \A t2 \in {"ExtU", "ExtY", "DW"} : \A i2, j2 \in (i + 1)..Len(seen) :
                       ( /\ t2 # t1
                         /\ Section(t2, i2, j2)
                         /\ \A k \in 1..Len(seen) :
                               IsMarkerLine(seen[k]) => k \in {i, i2}
                         /\ \A k \in (i2 + 2)..(j2 - 1) : PlainLine(seen[k], t2) )
                       => LET d == DeclaredFields(SubSeq(seen, i2 + 2, j2 - 1))
                          IN  /\ Len(ListOf(t2)) = Len(d)
                              /\ \A n \in 1..Len(d) : Carries(ListOf(t2)[n], d[n])

----------------------------------------------------------------------------
(* C7 *)

\* C7: Mode A. The pass runs to completion on every header: unless it has
\* emitted its output or aborted it can still make progress, also once the
\* input is exhausted; and a header without section markers that it has read
\* to its end gives three empty FieldLists and generation succeeds.
C7_RunsToCompletion ==
    /\ pc \in {"done", "panic"} \/ ENABLED <<NextA>>_vars
    /\ (pc \in {"done", "panic"} /\ \A k \in 1..Len(seen) : ~IsMarkerLine(seen[k]))
           => /\ pc = "done"
              /\ model_inputs = <<>> /\ model_outputs = <<>> /\ model_states = <<>>
              /\ code[1].var_u = <<>> /\ code[1].var_y = <<>> /\ code[1].var_s = <<>>

----------------------------------------------------------------------------
(* C8 *)

\* C8: Mode A. The emitted initialiser of each FieldList has one entry per
\* field line the parser read, in order: `0.0` for a field declared without
\* a bracketed size, an array of exactly n zeros for one declared with size n.
C8_ZeroDefault ==
    pc = "done" =>
        \A tag \in {"ExtU", "ExtY", "DW"} :
            LET d == DeclaredFields(BodyLines(tag))
                q == CASE tag = "ExtU" -> code[1].var_u
                       [] tag = "ExtY" -> code[1].var_y
                       [] tag = "DW" -> code[1].var_s
            IN  /\ Len(q) = Len(d)
                /\ \A n \in 1..Len(d) :
                      /\ q[n].var = d[n].name
                      /\ d[n].size = None => q[n].zeros = None
                      /\ d[n].size # None =>
                            /\ q[n].zeros # None
                            /\ ShortSize(d[n]) => q[n].zeros[1] = DeclaredLen(d[n])

----------------------------------------------------------------------------
(* Mode B claims about the generator *)

\* What has been read starts a header with one inputs section: the marker,
\* `typedef struct`, then lines from `body` only, then at most the closing line.
InputsHeader(H, isBody(_)) ==
    /\ Len(H) >= 3
    /\ Contains(H[1], Marker("ExtU"))
    /\ StartsWith(H[2], "typedef struct")
    /\ \A k \in 3..(Len(H) - 1) : isBody(H[k])
    /\ isBody(H[Len(H)]) \/ H[Len(H)] = End("ExtU")

Closed(H) == H[Len(H)] = End("ExtU")

\* A field line as the specification describes it: type token, identifier,
\* optional bracketed integer (here: of a plain name and a short size).
IsFieldLine(l) ==
    /\ binder_captures(l) # None
    /\ PlainLine(l, "ExtU")
    /\ IdentOk(StripUnderscores(binder_captures(l)[1].name))

Distinct(q) == \A i, j \in 1..Len(q) : q[i] = q[j] => i = j

\* C3: Mode B. For a header whose inputs section declares array fields
\* (`a[2]`) and scalar fields (`b`), generation succeeds and the input enum
\* has one variant per field, in declared order; indexing a variant at i
\* succeeds when i is below the declared length and panics otherwise.
C3_ArraysAndScalars ==
    InputsHeader(seen, IsFieldLine) =>
        /\ pc # "b_panic"
        /\ (pc = "b_done" /\ Closed(seen)) =>
              LET d == DeclaredFields(SubSeq(seen, 3, Len(seen) - 1))
              IN  /\ Len(code[1].u.enum) = Len(d)
                  /\ \A n \in 1..Len(d) :
                        /\ code[1].u.enum[n] = StripUnderscores(d[n].name)
                        /\ \A i \in 0..MaxIndex :
                              U_index(code[1].u.size[n], i) <=> i < DeclaredLen(d[n])

\* C4: Mode B. Whatever the pass emits has pairwise distinct variant names in
\* each enum and pairwise distinct controller member names for the fields of
\* one list: two fields of different names whose sanitised names collide end
\* the pass in an error instead.
C4_NoCollisionEmitted ==
    pc = "b_done" =>
        \A e \in {code[1].u, code[1].y} : \A i, j \in 1..Len(e.sim) :
            e.sim[i] # e.sim[j] => e.enum[i] # e.enum[j] /\ e.var[i] # e.var[j]

\* The lines of the struct bodies read so far, in Mode B.
BodyLinesB == BodyLines("ExtU") \o BodyLines("ExtY")

\* C5: Mode B. A line of a struct body that does not match the field pattern
\* (type token, identifier, optional bracketed integer) aborts the pass with
\* nothing emitted, and a pass whose body lines all match it does not abort.
C5_StrictBody ==
    /\ (\E k \in 1..Len(BodyLinesB) : binder_captures(BodyLinesB[k]) = None)
           => pc = "b_panic" /\ code = None
    /\ pc = "b_panic"
           => \E k \in 1..Len(BodyLinesB) : binder_captures(BodyLinesB[k]) = None

----------------------------------------------------------------------------
(* C9 *)

GenDone == pc \in {"done", "panic", "b_done", "b_panic"}

ModeA == pc \in {"name", "scan", "open", "body", "emit", "done", "panic"}

\* The fields of the lines the lenient pattern matches, as parse_io pushes them.
RECURSIVE MatchedA(_)
MatchedA(ls) ==
    IF ls = <<>> THEN <<>>
    ELSE (IF binder_captures(Head(ls)) = None THEN <<>>
          ELSE <<binder_IO_new(binder_captures(Head(ls))[1].name,
                               binder_captures(Head(ls))[1].size)>>)
             \o MatchedA(Tail(ls))

\* The fields of lines that all match the strict pattern.
MatchedB(ls) == [i \in 1..Len(ls) |-> parse_line(ls[i])[1]]

Suffix(q, m) == Len(q) >= Len(m) /\ SubSeq(q, Len(q) - Len(m) + 1, Len(q)) = m

\* Once a sub-scan has been ended by the end of the input: the input is
\* exhausted, no scan loop is running on it, the fields matched from the
\* struct's opening line to the end of the input are the section's FieldList
\* (Mode B appends them to it), and the exhausted input is polled a bounded
\* number of times (once per pending `if` of the outer loop, once by the loop).
C9_AtEndOfInput ==
    secEof # "" =>
        /\ eof
        /\ pc \notin {"name", "body", "b_body"}
        /\ polls <= 4
        /\ LET ls == SubSeq(seen, opened[secEof] + 1, Len(seen))
           IN  IF ModeA THEN ListOf(secEof) = MatchedA(ls)
               ELSE Suffix(ListOf(secEof), MatchedB(ls))

\* C9: when a section's marker and `typedef struct` line are seen and no later
\* line holds the tag, the sub-scan stops at the end of the input with the
\* fields matched so far as the section's FieldList, and the outer scan stops
\* too: the pass goes on to its end.
C9_UnterminatedSection ==
    /\ [](C9_AtEndOfInput)
    /\ (secEof # "") ~> GenDone

C9_Witness ==
    /\ secEof = "ExtU" /\ pc = "done"
    /\ Len(model_inputs) = 2
    /\ opened["ExtU"] = Len(seen) - 3

----------------------------------------------------------------------------
(* C2, C10 *)

\* C2 as claimed: over the controller's lifetime `terminate` is invoked
\* exactly once, at destruction, whatever the caller did in between.
C2_TerminateExactlyOnce ==
    /\ ctl = "live" => Count(native, "terminate") = 0
    /\ ctl = "dropped" =>
          /\ Count(native, "terminate") = 1
          /\ native[Len(native)] = "terminate"

\* C2, amended: the destruction of the controller invokes `terminate` exactly
\* once, as the controller's last native call; over the lifetime `terminate`
\* has been invoked once more than the caller called Simulink::terminate
\* itself, and before the destruction exactly as often as the caller called it.
C2_DropTerminatesOnce ==
    /\ ctl = "live" => Count(native, "terminate") = direct["terminate"]
    /\ ctl = "dropped" =>
          /\ Count(native, "terminate") = direct["terminate"] + 1
          /\ native[Len(native)] = "terminate"

C2_Witness ==
    /\ ctl = "dropped"
    /\ Len(yielded) >= 1
    /\ direct["terminate"] = 1
    /\ Count(native, "terminate") = 2

\* C10: `new` has invoked `initialize` once before anything else; every
\* iterator advance yields Some(()) and invokes `step` once, so that after k
\* advances (and no call of Simulink::__step__ by the caller) `step` has been
\* invoked k times, each of them after `initialize`.
C10_StepPerAdvance ==
    /\ \A i \in 1..Len(yielded) : yielded[i] = Some("()")
    /\ Count(native, "step") = Len(yielded) + direct["__step__"]
    /\ ctl # "none" =>
          /\ native[1] = "initialize"
          /\ Count(native, "initialize") = 1 + direct["initialize"]
    /\ ctl = "none" => native = <<>>

C10_Witness ==
    /\ ctl = "live"
    /\ Len(yielded) = 2
    /\ direct["__step__"] = 0
    /\ native = <<"initialize", "step", "step">>

=============================================================================
